---- MODULE Spec2Model ----
(***************************************************************************)
(* Model of the task store of src/database.py (DatabaseManager) over the   *)
(* tables of src/models.py (Task, Project, TaskHistory).                   *)
(*                                                                         *)
(* Each store operation opens a session with get_session, which commits    *)
(* when the `with` block is left normally (a `return` inside the block     *)
(* included) and rolls back when the block raises.  An operation is one    *)
(* action; the step of the operation that raises, if any, is the action's  *)
(* `fault` input.                                                          *)
(***************************************************************************)
EXTENDS Integers, Sequences, FiniteSets, TLC

\* ------------------------------------------------------------------ bounds
MaxId == 2          \* largest task id the model lets the store assign
MaxHist == 3        \* most TaskHistory rows the model lets the store hold
MaxProjects == 2    \* most Project rows the model lets the store hold

\* ------------------------------------------------------------------ values
\* Python None / SQL NULL.
None == "<None>"

\* models.py TaskStatus and TaskPriority: the values of the enumerations.
TaskStatus == {"Not Started", "Working on it", "Stuck", "Done"}
TaskPriority == {"Low", "Medium", "High", "Urgent"}

\* config.py DEFAULT_PROJECT.
DEFAULT_PROJECT == "learning"

\* The columns of a Task row other than its primary key, and the fields of
\* a Task object.
TaskColumns ==
  {"title", "status", "priority", "completed", "completed_date", "project",
   "owner", "due_date", "created_date"}

TaskAttrs == TaskColumns \cup {"id"}

\* Names hasattr finds on a Task object that are not fields: the methods a
\* model class has, of which the model takes dict.
TaskMethods == {"dict"}

\* hasattr(task, field)
HasAttr(field) == field \in TaskAttrs \cup TaskMethods

\* getattr(task, field)
GetAttr(task, field) == IF field \in TaskAttrs THEN task[field] ELSE "<bound method>"

\* Mutant of TaskDefault: a wrong default priority.
TaskDefaultLowPriority ==
  [title |-> None, status |-> "Not Started", priority |-> "Low",
   completed |-> FALSE, completed_date |-> None, project |-> "learning",
   owner |-> None, due_date |-> None]

\* The Field(default=...) of each Task column; title has none, and
\* created_date has a default_factory (see NewTask).
TaskDefault ==
  [title |-> None, status |-> "Not Started", priority |-> "Medium",
   completed |-> FALSE, completed_date |-> None, project |-> "learning",
   owner |-> None, due_date |-> None]

\* What the Task table accepts for a column: the enumerations' values for
\* status and priority, NOT NULL for title and project.
ColumnAccepts(field, value) ==
  CASE field = "title" -> value # None
    [] field = "status" -> value \in TaskStatus
    [] field = "priority" -> value \in TaskPriority
    [] field = "completed" -> value \in BOOLEAN
    [] field = "project" -> value # None
    [] field = "created_date" -> value # None
    [] field = "id" -> value \in Int
    [] OTHER -> TRUE

\* str(value): "True"/"False" for the boolean column, the decimal numeral for
\* the integer id, the string itself for a string.
TextOf(field, value) ==
  CASE field = "completed" -> (IF value THEN "True" ELSE "False")
    [] field = "id" -> ToString(value)
    [] OTHER -> value

\* `str(v) if v is not None else None`, as update_task writes old_value and
\* new_value.
TextOrNull(field, value) ==
  IF field \notin {"completed", "id"} /\ value = None THEN None
  ELSE TextOf(field, value)

\* ------------------------------------------------------------------- state
VARIABLES
  tasks,      \* Task table: id -> row
  projects,   \* Project table: id -> [name, is_active]
  history,    \* TaskHistory table, in insertion (id) order
  last,       \* the last call made on the store and what it returned
  upd,        \* per thread: the update_task call it is inside, if any
  dbFile,     \* what the database file at db_path holds
  backupFile, \* what the file at db_path + '.backup' holds
  boot,       \* per thread: its position inside _init_database
  checked,    \* the last validate_task_data call and what it returned
  today,      \* datetime.now().strftime("%Y-%m-%d"): the day it is
  search,     \* the SearchEntry widget, its timers and the calls it made
  backupRows, \* the Task rows held by the file at db_path + '.backup'
  window      \* the main window, its load workers and its idle callbacks

vars ==
  <<tasks, projects, history, last, upd, dbFile, backupFile, boot, checked, today,
    search, backupRows, window>>

\* The days the clock of the model runs through.
Days == <<"2026-11-03", "2026-11-04">>

\* The threads that call into the store.
Threads == {1, 2}

\* The variables an operation that runs in one step on an initialized store
\* leaves alone.
Elsewhere ==
  UNCHANGED <<upd, dbFile, backupFile, boot, checked, today, search,
              backupRows, window>>

TaskIds == DOMAIN tasks

Max(S) == CHOOSE x \in S : \A y \in S : y <= x

\* The id SQLite gives a row inserted without one: INTEGER PRIMARY KEY
\* without AUTOINCREMENT is the largest id in the table plus one.
NextRowId(ids) == IF ids = {} THEN 1 ELSE Max(ids) + 1

\* op, id, name, data: the call; ret: whether it returned its success value
\* (an id, True); raised: whether its except clause ran.
NoCall ==
  [op |-> "none", id |-> 0, name |-> "", ret |-> FALSE, raised |-> FALSE, data |-> <<>>]

Outside == [pc |-> "idle", task_id |-> 0, kwargs |-> <<>>, task |-> <<>>]

NotBooting == [pc |-> "idle", db_exists |-> FALSE]

\* SearchEntry(parent, on_search): the entry shows its placeholder, no
\* search is scheduled and none was made.  text: the entry's characters;
\* search_after_id: the id of the timer scheduled last, 0 for None; timers:
\* the timers of the event loop that have not fired; now: the clock, in
\* milliseconds; calls: the terms on_search received; keys: the key releases
\* handled; last_key: the time of the last one, -1 for none; burst: how many
\* key releases in a row came less than the delay after the one before;
\* since: the calls made since the last one.
Placeholder ==
  <<"S", "e", "a", "r", "c", "h", " ", "t", "a", "s", "k", "s", ".", ".", ".">>

SearchNew ==
  [text |-> Placeholder, search_after_id |-> 0, timers |-> {}, now |-> 0,
   calls |-> <<>>, keys |-> 0, last_key |-> -1, burst |-> 0, since |-> 0]

\* MainWindow() before its first load: no project chosen, nothing shown, no
\* worker thread, no idle callback.  loads counts the _load_tasks calls.
WindowNew ==
  [current_project |-> "", shown |-> None, is_loading |-> FALSE,
   workers |-> <<>>, idle |-> <<>>, loads |-> 0]

\* No validate_task_data call made yet.
NoCheck == [called |-> FALSE, data |-> <<>>, raised |-> FALSE, is_valid |-> FALSE, errors |-> <<>>]

\* The store after DatabaseManager() on a machine without a database file:
\* the schema created, the tables empty.
Init ==
  /\ tasks = <<>>
  /\ projects = <<>>
  /\ history = <<>>
  /\ last = NoCall
  /\ upd = [t \in Threads |-> Outside]
  /\ dbFile = "current"
  /\ backupFile = "absent"
  /\ boot = [t \in Threads |-> NotBooting]
  /\ checked = NoCheck
  /\ today = Days[1]
  /\ search = SearchNew
  /\ backupRows = <<>>
  /\ window = WindowNew

\* ---------------------------------------------------------------- add_task
\* Task(**task_data): the supplied columns, the defaults for the others
\* (for created_date the day of the call, written %Y-%m-%d); the id is the
\* one the insert assigns.
NewTask(id, task_data) ==
  [f \in TaskAttrs |->
     IF f = "id" THEN id
     ELSE IF f \in DOMAIN task_data THEN task_data[f]
     ELSE IF f = "created_date" THEN today
     ELSE TaskDefault[f]]

RowAccepted(row) == \A f \in TaskColumns : ColumnAccepts(f, row[f])

\* The steps of add_task that can raise inside the session scope.
AddFaults == {"none", "commit", "refresh"}

\* add_task: the row is inserted by the explicit session.commit(); a raise
\* before or in it stores nothing, a raise in session.refresh after it
\* leaves the row stored; either way the except clause returns None.
AddTask(task_data, fault) ==
  LET id == NextRowId(TaskIds)
      row == NewTask(id, task_data)
      stored == fault # "commit" /\ RowAccepted(row)
      ok == stored /\ fault = "none"
  IN /\ id <= MaxId
     /\ tasks' = IF stored THEN (id :> row) @@ tasks ELSE tasks
     /\ last' = [op |-> "add_task", id |-> IF ok THEN id ELSE 0, name |-> "",
                 ret |-> ok, raised |-> ~ok, data |-> task_data]
     /\ UNCHANGED <<projects, history>>
     /\ Elsewhere

\* ------------------------------------------------------------- update_task
HistoryRow(task_id, field, old_value, new_value) ==
  [task_id |-> task_id, field_name |-> field,
   old_value |-> TextOrNull(field, old_value),
   new_value |-> TextOrNull(field, new_value)]

\* Task.Config.validate_assignment: setattr raises for a value the field's
\* type does not admit, and for a name that is not a field.
AssignAccepts(field, value) ==
  CASE field \in TaskMethods -> FALSE
    [] field = "title" -> value # None
    [] field = "status" -> value \in TaskStatus
    [] field = "priority" -> value \in TaskPriority
    [] field = "project" -> value # None
    [] OTHER -> TRUE

\* Mutant of ApplyChanges: every supplied attribute is assigned and logged,
\* whether or not its value differs from the stored one.
RECURSIVE ApplyChangesUncompared(_, _, _, _)
ApplyChangesUncompared(task_id, task, rows, kwargs) ==
  IF kwargs = <<>> THEN [raised |-> FALSE, task |-> task, rows |-> rows]
  ELSE LET field == Head(kwargs).f
           new_value == Head(kwargs).v
       IN IF HasAttr(field)
          THEN IF ~AssignAccepts(field, new_value)
               THEN [raised |-> TRUE, task |-> task, rows |-> rows]
               ELSE ApplyChangesUncompared(task_id, [task EXCEPT ![field] = new_value],
                      Append(rows, HistoryRow(task_id, field, task[field], new_value)),
                      Tail(kwargs))
          ELSE ApplyChangesUncompared(task_id, task, rows, Tail(kwargs))

\* The loop of update_task over kwargs, in the mapping's order: a key that is
\* an attribute of the task and whose value differs from the attribute is
\* assigned and logged; the assignment raises when the value is rejected.
RECURSIVE ApplyChanges(_, _, _, _)
ApplyChanges(task_id, task, rows, kwargs) ==
  IF kwargs = <<>> THEN [raised |-> FALSE, task |-> task, rows |-> rows]
  ELSE LET field == Head(kwargs).f
           new_value == Head(kwargs).v
       IN IF HasAttr(field) /\ GetAttr(task, field) # new_value
          THEN IF ~AssignAccepts(field, new_value)
               THEN [raised |-> TRUE, task |-> task, rows |-> rows]
               ELSE ApplyChanges(task_id, [task EXCEPT ![field] = new_value],
                      Append(rows, HistoryRow(task_id, field, task[field], new_value)),
                      Tail(kwargs))
          ELSE ApplyChanges(task_id, task, rows, Tail(kwargs))

\* The steps of an operation that can raise before its changes are committed.
WriteFaults == {"none", "commit"}

\* The Task table with the row stored under task_id replaced by row (whose
\* primary key may have been reassigned).
Rekeyed(task_id, row) ==
  [i \in (TaskIds \ {task_id}) \cup {row.id} |-> IF i = row.id THEN row ELSE tasks[i]]

\* update_task: False when the task is not found; the session's commit at
\* the end of the scope writes the changed attributes and the history rows,
\* and any raise before or in it rolls everything back and returns False.
UpdateTask(task_id, kwargs, fault) ==
  LET found == task_id \in TaskIds
      r == ApplyChanges(task_id, tasks[task_id], <<>>, kwargs)
      pk_clash == r.task.id # task_id /\ r.task.id \in TaskIds
      ok == found /\ ~r.raised /\ ~pk_clash /\ fault = "none"
  IN /\ ok => Len(history) + Len(r.rows) <= MaxHist
     /\ tasks' = IF ok THEN Rekeyed(task_id, r.task) ELSE tasks
     /\ history' = IF ok THEN history \o r.rows ELSE history
     /\ last' = [op |-> "update_task", id |-> task_id, name |-> "",
                 ret |-> ok, raised |-> found /\ ~ok, data |-> kwargs]
     /\ UNCHANGED projects
     /\ Elsewhere

\* ------------------------------------------------------------- delete_task
\* Mutant of HistoryWithout: the history rows are left behind.
HistoryKept(task_id) == history

\* The TaskHistory table without the rows of task_id.
HistoryWithout(task_id) == SelectSeq(history, LAMBDA h : h.task_id # task_id)

\* delete_task: False when the task is not found; otherwise the history rows
\* of the id and the task are deleted and committed together.
DeleteTask(task_id, fault) ==
  LET found == task_id \in TaskIds
      ok == found /\ fault = "none"
  IN /\ tasks' = IF ok THEN [i \in TaskIds \ {task_id} |-> tasks[i]] ELSE tasks
     /\ history' = IF ok THEN HistoryWithout(task_id) ELSE history
     /\ last' = [op |-> "delete_task", id |-> task_id, name |-> "",
                 ret |-> ok, raised |-> found /\ ~ok, data |-> <<>>]
     /\ UNCHANGED projects
     /\ Elsewhere

\* ---------------------------------------------------------------- projects
ProjectIds == DOMAIN projects

\* Project(**project_data): is_active defaults to True.
NewProject(project_data) ==
  [name |-> IF "name" \in DOMAIN project_data THEN project_data.name ELSE None,
   is_active |-> IF "is_active" \in DOMAIN project_data
                 THEN project_data.is_active ELSE TRUE]

\* add_project: like add_task, committed before session.refresh; the name
\* column is NOT NULL and carries no unique constraint.
AddProject(project_data, fault) ==
  LET id == NextRowId(ProjectIds)
      row == NewProject(project_data)
      stored == fault # "commit" /\ row.name # None
      ok == stored /\ fault = "none"
  IN /\ id <= MaxProjects
     /\ projects' = IF stored THEN (id :> row) @@ projects ELSE projects
     /\ last' = [op |-> "add_project", id |-> IF ok THEN id ELSE 0,
                 name |-> row.name, ret |-> ok, raised |-> ~ok, data |-> project_data]
     /\ UNCHANGED <<tasks, history>>
     /\ Elsewhere

\* select(Project).where(Project.name == name): the ids of the matching rows.
ProjectsNamed(project_name) == {i \in ProjectIds : projects[i].name = project_name}

\* .first() of a select without ORDER BY: SQLite scans the table in rowid
\* order, so the match with the smallest id.
First(ids) == CHOOSE i \in ids : \A j \in ids : i <= j

\* delete_project: the first row of that name gets is_active = False.
DeleteProject(project_name, fault) ==
  LET found == ProjectsNamed(project_name) # {}
      ok == found /\ fault = "none"
  IN /\ projects' = IF ok
                    THEN [projects EXCEPT ![First(ProjectsNamed(project_name))].is_active = FALSE]
                    ELSE projects
     /\ last' = [op |-> "delete_project", id |-> 0, name |-> project_name,
                 ret |-> ok, raised |-> found /\ ~ok, data |-> <<>>]
     /\ UNCHANGED <<tasks, history>>
     /\ Elsewhere

\* select(Task).where(Task.project == name): the ids of the matching tasks.
TasksOfProject(project_name) == {i \in TaskIds : tasks[i].project = project_name}

\* delete_project_permanently: the tasks of that project are marked deleted
\* first; then the first project row of that name is deleted and True is
\* returned, or, when there is none, False is returned from inside the
\* session scope, whose normal exit commits the pending task deletions.  The
\* TaskHistory table is not touched.
DeleteProjectPermanently(project_name, fault) ==
  LET found == ProjectsNamed(project_name) # {}
      committed == fault = "none"
      gone == TasksOfProject(project_name)
  IN /\ tasks' = IF committed THEN [i \in TaskIds \ gone |-> tasks[i]] ELSE tasks
     /\ projects' = IF committed /\ found
                    THEN [i \in ProjectIds \ {First(ProjectsNamed(project_name))} |-> projects[i]]
                    ELSE projects
     /\ last' = [op |-> "delete_project_permanently", id |-> 0, name |-> project_name,
                 ret |-> committed /\ found, raised |-> ~committed, data |-> <<>>]
     /\ UNCHANGED history
     /\ Elsewhere

\* ------------------------------------------ delete_orphan_learning_tasks
\* lower(): the names the model files tasks and projects under, in lower
\* case.
Lower(name) ==
  CASE name = "Learning" -> "learning"
    [] name = "X" -> "x"
    [] OTHER -> name

\* column.ilike('learning'): lower(column) LIKE lower('learning'), a pattern
\* without wildcards.
ILikeLearning(name) == Lower(name) = "learning"

\* select(Project).where(Project.name.ilike('learning')): active or not.
LearningProjects == {i \in ProjectIds : ILikeLearning(projects[i].name)}

\* select(Task).where(Task.project.ilike('learning'))
LearningTasks == {i \in TaskIds : ILikeLearning(tasks[i].project)}

\* delete_orphan_learning_tasks: when no project matches, the matching tasks
\* are deleted and committed and True is returned, whether or not there was
\* a task to delete; when one matches, False.  A commit that raises rolls
\* the deletions back and returns False.  The TaskHistory table is not
\* touched.
DeleteOrphanLearningTasks(fault) ==
  LET orphan == LearningProjects = {}
      ok == orphan /\ fault = "none"
  IN /\ tasks' = IF ok THEN [i \in TaskIds \ LearningTasks |-> tasks[i]] ELSE tasks
     /\ last' = [op |-> "delete_orphan_learning_tasks", id |-> 0, name |-> "",
                 ret |-> ok, raised |-> orphan /\ ~ok, data |-> <<>>]
     /\ UNCHANGED <<projects, history>>
     /\ Elsewhere

\* ------------------------------------------------------------------ queries
\* Mutant of GetTaskById: an id that names no task yields a stale record.
GetTaskByIdStale(task_id) == IF task_id \in TaskIds THEN tasks[task_id] ELSE "stale"

\* get_task_by_id: the row, or None.
GetTaskById(task_id) == IF task_id \in TaskIds THEN tasks[task_id] ELSE None

\* get_tasks(project=...): the ids of the rows returned.  The project filter
\* is applied only when the argument is truthy (neither None nor the empty
\* string); the default limit, BATCH_SIZE = 50, is above any number of rows
\* the bounds allow.
GetTasks(project) ==
  IF project = None \/ project = "" THEN TaskIds ELSE TasksOfProject(project)

\* get_projects: the rows with is_active true.
GetProjects == {i \in ProjectIds : projects[i].is_active}

\* get_task_history: the rows of that task id.
GetTaskHistory(task_id) == SelectSeq(history, LAMBDA h : h.task_id = task_id)

\* ------------------------------------------- update_task, thread by thread
\* update_task run by a thread takes two steps on the database: session.get
\* reads the row (pysqlite opens no transaction for a SELECT, so nothing is
\* held afterwards), and the commit at the end of the session scope writes
\* the attributes the loop changed and inserts the history rows.  The loop
\* itself works on the thread's own Task object.

\* session.get(Task, task_id): not found returns False at once.
UpdateRead(t, task_id, kwargs) ==
  /\ upd[t].pc = "idle"
  /\ IF task_id \in TaskIds
     THEN /\ upd' = [upd EXCEPT ![t] = [pc |-> "loaded", task_id |-> task_id,
                                       kwargs |-> kwargs, task |-> tasks[task_id]]]
          /\ UNCHANGED last
     ELSE /\ last' = [op |-> "update_task", id |-> task_id, name |-> "",
                      ret |-> FALSE, raised |-> FALSE, data |-> kwargs]
          /\ UNCHANGED upd
  /\ UNCHANGED <<tasks, projects, history, dbFile, backupFile, boot, checked,
                 today, search, backupRows, window>>

\* The row UPDATE task SET <changed attributes> WHERE id = :id leaves: the
\* attributes the loop changed on the thread's object, the stored values of
\* the others.
Flushed(stored, loaded, changed) ==
  [f \in TaskAttrs |-> IF changed[f] # loaded[f] THEN changed[f] ELSE stored[f]]

\* The loop and the commit: a rejected assignment, or a row that is gone when
\* the UPDATE runs, raises, rolls back and returns False.
UpdateCommit(t) ==
  LET task_id == upd[t].task_id
      r == ApplyChanges(task_id, upd[t].task, <<>>, upd[t].kwargs)
      ok == ~r.raised /\ task_id \in TaskIds
  IN /\ upd[t].pc = "loaded"
     /\ ok => Len(history) + Len(r.rows) <= MaxHist
     /\ tasks' = IF ok
                 THEN [tasks EXCEPT ![task_id] = Flushed(tasks[task_id], upd[t].task, r.task)]
                 ELSE tasks
     /\ history' = IF ok THEN history \o r.rows ELSE history
     /\ last' = [op |-> "update_task", id |-> task_id, name |-> "",
                 ret |-> ok, raised |-> ~ok, data |-> upd[t].kwargs]
     /\ upd' = [upd EXCEPT ![t] = Outside]
     /\ UNCHANGED <<projects, dbFile, backupFile, boot, checked, today, search, backupRows, window>>

\* ---------------------------------------------------------- _init_database
\* What a file holds: nothing ("absent"), the tables of models.py
\* ("current"), tables the probe read fails on ("outdated"), or no tables at
\* all ("empty", between drop_all and create_all).
FileStates == {"absent", "current", "outdated", "empty"}

\* create_engine and os.path.exists(self.db_path).  self._lock is created in
\* __init__ and acquired nowhere.
InitEnter(t) ==
  /\ boot[t].pc = "idle"
  /\ boot' = [boot EXCEPT ![t] = [pc |-> IF dbFile # "absent" THEN "probe" ELSE "create_new",
                                  db_exists |-> dbFile # "absent"]]
  /\ UNCHANGED <<tasks, projects, history, last, upd, dbFile, backupFile,
                 checked, today, search, backupRows, window>>

\* session.exec(select(Task).limit(1)): raises unless the task table has the
\* expected shape.
InitProbe(t) ==
  /\ boot[t].pc = "probe"
  /\ boot' = [boot EXCEPT ![t].pc = IF dbFile = "current" THEN "idle" ELSE "backup_check"]
  /\ UNCHANGED <<tasks, projects, history, last, upd, dbFile, backupFile,
                 checked, today, search, backupRows, window>>

\* if not os.path.exists(backup_path)
InitBackupCheck(t) ==
  /\ boot[t].pc = "backup_check"
  /\ boot' = [boot EXCEPT ![t].pc = IF backupFile = "absent" THEN "copy" ELSE "drop"]
  /\ UNCHANGED <<tasks, projects, history, last, upd, dbFile, backupFile,
                 checked, today, search, backupRows, window>>

\* shutil.copy2(self.db_path, backup_path)
InitCopy(t) ==
  /\ boot[t].pc = "copy"
  /\ backupFile' = dbFile
  /\ backupRows' = tasks
  /\ boot' = [boot EXCEPT ![t].pc = "drop"]
  /\ UNCHANGED <<tasks, projects, history, last, upd, dbFile, checked, today, search, window>>

\* SQLModel.metadata.drop_all
InitDrop(t) ==
  /\ boot[t].pc = "drop"
  /\ dbFile' = "empty"
  /\ tasks' = <<>> /\ projects' = <<>> /\ history' = <<>>
  /\ boot' = [boot EXCEPT ![t].pc = "create"]
  /\ UNCHANGED <<last, upd, backupFile, checked, today, search, backupRows, window>>

\* SQLModel.metadata.create_all: creates the tables that are missing.
InitCreate(t) ==
  /\ boot[t].pc \in {"create", "create_new"}
  /\ dbFile' = IF dbFile \in {"absent", "empty"} THEN "current" ELSE dbFile
  /\ boot' = [boot EXCEPT ![t].pc = "idle"]
  /\ UNCHANGED <<tasks, projects, history, last, upd, backupFile, checked,
                 today, search, backupRows, window>>

\* ------------------------------------------- _init_database, one call alone
\* The steps of _init_database that can raise when they are reached:
\* create_engine, the probe read (on a file whose task table is as expected,
\* too: any exception counts), shutil.copy2, drop_all, create_all.
InitFaults == {"none", "engine", "probe", "copy", "drop", "create"}

\* A backup is made whatever the backup path holds.
NeedsBackupAlways == TRUE

\* if not os.path.exists(backup_path)
NeedsBackup == backupFile = "absent"

\* _init_database run by one caller from entry to return.  The probe failure
\* is absorbed by the inner except clause and starts the migration; every
\* other exception is logged by the outer clause and raised again.  name is
\* the branch taken ("created", "kept", "migrated"; "" when create_engine
\* raised), data the step that raised.  A copy or a create_all that raises
\* may or may not have left a file behind.
InitDatabase(fault) ==
  LET db_exists == dbFile # "absent"
      entered == fault # "engine"
      probe_fails == entered /\ db_exists /\ (dbFile # "current" \/ fault = "probe")
      at_copy == probe_fails /\ NeedsBackup
      at_drop == probe_fails /\ ~(at_copy /\ fault = "copy")
      dropped == at_drop /\ fault # "drop"
      at_create == dropped \/ (entered /\ ~db_exists)
      created == at_create /\ fault # "create"
      raised == \/ ~entered
                \/ at_copy /\ fault = "copy"
                \/ at_drop /\ fault = "drop"
                \/ at_create /\ fault = "create"
      path == IF ~entered THEN ""
              ELSE IF ~db_exists THEN "created"
              ELSE IF probe_fails THEN "migrated" ELSE "kept"
  IN /\ backupFile' \in IF at_copy /\ fault = "copy" THEN {backupFile, "partial"}
                        ELSE IF at_copy THEN {dbFile}
                        ELSE {backupFile}
     /\ backupRows' = IF at_copy /\ fault # "copy" THEN tasks ELSE backupRows
     /\ dbFile' \in IF created THEN {"current"}
                    ELSE IF dropped THEN {"empty"}
                    ELSE IF at_create THEN {dbFile, "empty"}
                    ELSE {dbFile}
     /\ tasks' = IF dropped THEN <<>> ELSE tasks
     /\ projects' = IF dropped THEN <<>> ELSE projects
     /\ history' = IF dropped THEN <<>> ELSE history
     /\ last' = [op |-> "_init_database", id |-> 0, name |-> path,
                 ret |-> ~raised, raised |-> raised, data |-> fault]
     /\ UNCHANGED <<upd, boot, checked, today, search, window>>

\* ------------------------------------------------------ validate_task_data
\* A value of a field mapping carries its Python type in t: "str" (s its
\* characters), "float" (an int or float; n the number in tenths), "nan"
\* (float('nan')), "NoneType", "list".
StrValue(s) == [t |-> "str", s |-> s, n |-> 0]
NumValue(tenths) == [t |-> "float", s |-> <<>>, n |-> tenths]
NanValue == [t |-> "nan", s |-> <<>>, n |-> 0]
NoneValue == [t |-> "NoneType", s |-> <<>>, n |-> 0]
ListValue == [t |-> "list", s |-> <<>>, n |-> 0]

\* data.get(key, default)
Get(data, key, default) == IF key \in DOMAIN data THEN data[key] ELSE default

Min(S) == CHOOSE x \in S : \A y \in S : x <= y

RECURSIVE StripLeft(_)
StripLeft(s) == IF s # <<>> /\ Head(s) = " " THEN StripLeft(Tail(s)) ELSE s

RECURSIVE StripRight(_)
StripRight(s) ==
  IF s # <<>> /\ s[Len(s)] = " " THEN StripRight(SubSeq(s, 1, Len(s) - 1)) ELSE s

\* str.strip(): the text without its leading and trailing whitespace.
Strip(s) == StripRight(StripLeft(s))

DigitValue ==
  [c \in {"0", "1", "2", "3", "4", "5", "6", "7", "8", "9"} |->
     CASE c = "0" -> 0 [] c = "1" -> 1 [] c = "2" -> 2 [] c = "3" -> 3
       [] c = "4" -> 4 [] c = "5" -> 5 [] c = "6" -> 6 [] c = "7" -> 7
       [] c = "8" -> 8 [] c = "9" -> 9]

IsDigits(s) == s # <<>> /\ \A i \in 1..Len(s) : s[i] \in DOMAIN DigitValue

\* int() of a run of decimal digits; 0 for the empty run.
RECURSIVE IntOf(_)
IntOf(s) ==
  IF s = <<>> THEN 0
  ELSE IntOf(SubSeq(s, 1, Len(s) - 1)) * 10 + DigitValue[s[Len(s)]]

\* The days datetime accepts in a month of a year.
DaysInMonth(year, month) ==
  IF month = 2
  THEN IF year % 4 = 0 /\ (year % 100 # 0 \/ year % 400 = 0) THEN 29 ELSE 28
  ELSE IF month \in {4, 6, 9, 11} THEN 30 ELSE 31

\* datetime.strptime(s, "%Y-%m-%d") returns: the whole text is four digits,
\* "-", a month 1..12 in one or two digits, "-", a day in one or two digits
\* (or a space and one digit), and datetime(year, month, day) exists.
Strptime(s) ==
  LET dashes == {i \in 1..Len(s) : s[i] = "-"}
      y == SubSeq(s, 1, Min(dashes) - 1)
      m == SubSeq(s, Min(dashes) + 1, Max(dashes) - 1)
      d == SubSeq(s, Max(dashes) + 1, Len(s))
      day == IF Len(d) = 2 /\ d[1] = " " THEN Tail(d) ELSE d
  IN /\ Cardinality(dashes) = 2
     /\ Len(y) = 4 /\ IsDigits(y) /\ IntOf(y) >= 1
     /\ Len(m) \in {1, 2} /\ IsDigits(m) /\ IntOf(m) \in 1..12
     /\ Len(day) \in {1, 2} /\ IsDigits(day)
     /\ Len(d) = 2 /\ d[1] = " " => IntOf(day) >= 1
     /\ IntOf(day) \in 1..DaysInMonth(IntOf(y), IntOf(m))

\* validate_date: an empty text passes; otherwise strptime decides.
validate_date(date_string) ==
  IF date_string = <<>> THEN TRUE ELSE Strptime(date_string)

\* A float: finite (tenths its value times ten), an infinity (tenths its
\* sign), or not a number; raised when float() raised instead.
Finite(tenths) == [raised |-> FALSE, kind |-> "finite", tenths |-> tenths]
Infinite(sign) == [raised |-> FALSE, kind |-> "inf", tenths |-> sign]
NotANumber == [raised |-> FALSE, kind |-> "nan", tenths |-> 0]
FloatRaised == [raised |-> TRUE, kind |-> "nan", tenths |-> 0]

\* float(str): whitespace around is ignored; an optional sign, then "nan",
\* "inf" or a decimal numeral (of at most one fractional digit in this
\* model); anything else raises ValueError.
FloatOfStr(s) ==
  LET w == Strip(s)
      signed == w # <<>> /\ w[1] \in {"+", "-"}
      sign == IF signed /\ w[1] = "-" THEN -1 ELSE 1
      u == IF signed THEN Tail(w) ELSE w
      dots == {i \in 1..Len(u) : u[i] = "."}
      whole == IF dots = {} THEN u ELSE SubSeq(u, 1, Min(dots) - 1)
      frac == IF dots = {} THEN <<>> ELSE SubSeq(u, Min(dots) + 1, Len(u))
  IN IF u = <<"n", "a", "n">> THEN NotANumber
     ELSE IF u = <<"i", "n", "f">> THEN Infinite(sign)
     ELSE IF /\ Cardinality(dots) <= 1
             /\ IsDigits(whole) \/ (whole = <<>> /\ frac # <<>>)
             /\ frac = <<>> \/ (IsDigits(frac) /\ Len(frac) = 1)
          THEN Finite(sign * (IntOf(whole) * 10 + IntOf(frac)))
          ELSE FloatRaised

\* float(x): a number is itself, a str is parsed, any other type raises
\* TypeError.
Float(x) ==
  CASE x.t = "float" -> Finite(x.n)
    [] x.t = "nan" -> NotANumber
    [] x.t = "str" -> FloatOfStr(x.s)
    [] OTHER -> FloatRaised

\* hours < n and hours > n for an integer n: both false for a NaN.
Less(hours, n) ==
  \/ hours.kind = "finite" /\ hours.tenths < n * 10
  \/ hours.kind = "inf" /\ hours.tenths < 0

Greater(hours, n) ==
  \/ hours.kind = "finite" /\ hours.tenths > n * 10
  \/ hours.kind = "inf" /\ hours.tenths > 0

\* The fields validate_task_data calls .strip() on, '' their default.
StrippedFields == {"title", "due_date", "owner", "notes", "tags"}

\* data.get(field, '').strip()
Stripped(data, field) == Strip(Get(data, field, StrValue(<<>>)).s)

\* Mutant of TitleErrors: the length alone is checked.
TitleErrorsLengthOnly(data) ==
  IF Len(Stripped(data, "title")) > 100
  THEN <<"Task title must be 100 characters or less">> ELSE <<>>

TitleErrors(data) ==
  LET title == Stripped(data, "title")
  IN IF title = <<>> THEN <<"Task title is required">>
     ELSE IF Len(title) > 100 THEN <<"Task title must be 100 characters or less">>
     ELSE <<>>

DueDateErrors(data) ==
  LET due_date == Stripped(data, "due_date")
  IN IF due_date # <<>> /\ ~validate_date(due_date)
     THEN <<"Invalid due date format. Use YYYY-MM-DD (e.g., 2024-12-31)">>
     ELSE <<>>

OwnerErrors(data) ==
  LET owner == Stripped(data, "owner")
  IN IF owner # <<>> /\ Len(owner) > 50
     THEN <<"Owner name must be 50 characters or less">> ELSE <<>>

HoursErrors(data) ==
  LET estimated_hours == Get(data, "estimated_hours", NoneValue)
      hours == Float(estimated_hours)
  IN IF estimated_hours.t = "NoneType" THEN <<>>
     ELSE IF hours.raised THEN <<"Estimated hours must be a valid number">>
     ELSE IF Less(hours, 0) THEN <<"Estimated hours must be a positive number">>
     ELSE IF Greater(hours, 1000) THEN <<"Estimated hours must be 1000 or less">>
     ELSE <<>>

\* Mutant of NotesErrors: the limit is config.py's MAX_NOTES_LENGTH.
NotesErrorsConfigLimit(data) ==
  LET notes == Stripped(data, "notes")
  IN IF notes # <<>> /\ Len(notes) > 500
     THEN <<"Notes must be 1000 characters or less">> ELSE <<>>

NotesErrors(data) ==
  LET notes == Stripped(data, "notes")
  IN IF notes # <<>> /\ Len(notes) > 1000
     THEN <<"Notes must be 1000 characters or less">> ELSE <<>>

TagsErrors(data) ==
  LET tags == Stripped(data, "tags")
  IN IF tags # <<>> /\ Len(tags) > 200
     THEN <<"Tags must be 200 characters or less">> ELSE <<>>

\* The lines of "\n".join(<bullet> + " " + error for error in errors): each
\* the bullet character, written "bullet" here, and a message.
Bulleted(errors) == [i \in 1..Len(errors) |-> <<"bullet", errors[i]>>]

\* validate_task_data(data).  .strip() exists on a str only: a present value
\* of another type in a stripped field raises AttributeError, which nothing
\* in the function catches.  Otherwise (is_valid, error_message).
validate_task_data(data) ==
  LET errors == TitleErrors(data) \o DueDateErrors(data) \o OwnerErrors(data)
                  \o HoursErrors(data) \o NotesErrors(data) \o TagsErrors(data)
  IN IF \E f \in StrippedFields \cap DOMAIN data : data[f].t # "str"
     THEN [called |-> TRUE, data |-> data, raised |-> TRUE,
           is_valid |-> FALSE, errors |-> <<>>]
     ELSE [called |-> TRUE, data |-> data, raised |-> FALSE,
           is_valid |-> errors = <<>>, errors |-> Bulleted(errors)]

\* The caller's call on the field mapping it holds.  The function reads and
\* writes nothing of the store.
ValidateTaskData ==
  /\ ~checked.called
  /\ checked' = validate_task_data(checked.data)
  /\ UNCHANGED <<tasks, projects, history, last, upd, dbFile, backupFile, boot,
                 today, search, backupRows, window>>

\* ------------------------------------------------------- dates in the store
\* The characters of the texts the model stores in a date column.
CharsOf(s) ==
  CASE s = "2000-01-01" -> <<"2", "0", "0", "0", "-", "0", "1", "-", "0", "1">>
    [] s = "2026-11-03" -> <<"2", "0", "2", "6", "-", "1", "1", "-", "0", "3">>
    [] s = "2026-11-04" -> <<"2", "0", "2", "6", "-", "1", "1", "-", "0", "4">>
    [] s = "2026-2-01" -> <<"2", "0", "2", "6", "-", "2", "-", "0", "1">>
    [] s = "soon" -> <<"s", "o", "o", "n">>

\* The code point of a character of those texts.
CodeOf(c) ==
  CASE c = "-" -> 45
    [] c \in DOMAIN DigitValue -> 48 + DigitValue[c]
    [] c = "n" -> 110
    [] c = "o" -> 111
    [] c = "s" -> 115

\* a < b as SQLite compares two TEXT values: byte by byte, a proper prefix
\* first.
RECURSIVE TextLess(_, _)
TextLess(a, b) ==
  IF b = <<>> THEN FALSE
  ELSE IF a = <<>> THEN TRUE
  ELSE IF Head(a) = Head(b) THEN TextLess(Tail(a), Tail(b))
  ELSE CodeOf(Head(a)) < CodeOf(Head(b))

\* The day datetime.strptime(s, "%Y-%m-%d") returns, as year * 10000 +
\* month * 100 + day, for a text it parses.
DayOf(s) ==
  LET dashes == {i \in 1..Len(s) : s[i] = "-"}
      y == SubSeq(s, 1, Min(dashes) - 1)
      m == SubSeq(s, Min(dashes) + 1, Max(dashes) - 1)
      d == SubSeq(s, Max(dashes) + 1, Len(s))
      day == IF Len(d) = 2 /\ d[1] = " " THEN Tail(d) ELSE d
  IN IntOf(y) * 10000 + IntOf(m) * 100 + IntOf(day)

\* A day passes.
Midnight ==
  /\ \E k \in 1..(Len(Days) - 1) : today = Days[k] /\ today' = Days[k + 1]
  /\ UNCHANGED <<tasks, projects, history, last, upd, dbFile, backupFile, boot,
                 checked, search, backupRows, window>>

\* ------------------------------------------------- queries, call by call
\* `if project:` and the like: a filter that is None or '' is not applied.
Applied(filter) == filter # None /\ filter # ""

\* Mutant of Matching: the owner filter is not applied.
MatchingAnyOwner(project, status, owner) ==
  {i \in TaskIds : /\ Applied(project) => tasks[i].project = project
                   /\ Applied(status) => tasks[i].status = status}

\* The rows the where clauses of get_tasks keep.
Matching(project, status, owner) ==
  {i \in TaskIds : /\ Applied(project) => tasks[i].project = project
                   /\ Applied(status) => tasks[i].status = status
                   /\ Applied(owner) => tasks[i].owner = owner}

\* The orders ORDER BY created_date DESC may return the rows ids in: rows of
\* one created_date come in an order the database chooses.
Ordered(ids) ==
  {o \in [1..Cardinality(ids) -> ids] :
     /\ \A j, k \in DOMAIN o : j # k => o[j] # o[k]
     /\ \A k \in 1..(Len(o) - 1) :
          ~TextLess(CharsOf(tasks[o[k]].created_date), CharsOf(tasks[o[k + 1]].created_date))}

\* OFFSET offset LIMIT limit
Page(order, limit, offset) ==
  SubSeq(order, offset + 1, IF offset + limit < Len(order) THEN offset + limit ELSE Len(order))

BATCH_SIZE == 50

\* get_tasks: the rows of the page, as dictionaries.
GetTasksPage(project, status, owner, limit, offset) ==
  /\ \E order \in Ordered(Matching(project, status, owner)) :
       last' = [op |-> "get_tasks", id |-> 0, name |-> "", ret |-> TRUE, raised |-> FALSE,
                data |-> [project |-> project, status |-> status, owner |-> owner,
                          limit |-> limit, offset |-> offset,
                          rows |-> [k \in DOMAIN Page(order, limit, offset) |->
                                      tasks[Page(order, limit, offset)[k]]]]]
  /\ UNCHANGED <<tasks, projects, history>>
  /\ Elsewhere

\* WHERE due_date < :today AND completed = 0, a comparison of texts that is
\* not true of a NULL.
OverdueTasks ==
  {i \in TaskIds : /\ tasks[i].due_date # None
                   /\ TextLess(CharsOf(tasks[i].due_date), CharsOf(today))
                   /\ ~tasks[i].completed}

\* get_overdue_tasks: the rows selected, on the day of the call.
GetOverdueTasks ==
  /\ last' = [op |-> "get_overdue_tasks", id |-> 0, name |-> "", ret |-> TRUE,
              raised |-> FALSE,
              data |-> [today |-> today, rows |-> {tasks[i] : i \in OverdueTasks}]]
  /\ UNCHANGED <<tasks, projects, history>>
  /\ Elsewhere

\* What get_task_statistics returns from its except clause.
NoStatistics ==
  [total |-> 0, completed |-> 0, overdue |-> 0, status_counts |-> <<>>,
   completion_rate |-> [num |-> 0, den |-> 1]]

\* get_task_statistics: counts over the rows of the project (of all projects
\* for None or '').  strptime is called on every due_date that is not None
\* or '', and raises on one it cannot parse: the except clause then returns
\* the zeroes.  completion_rate is the fraction num / den; now() is taken to
\* be past midnight.
TaskStatistics(project) ==
  LET rows == Matching(project, None, None)
      dated == {i \in rows : tasks[i].due_date # None /\ tasks[i].due_date # ""}
      total == Cardinality(rows)
      completed == Cardinality({i \in rows : tasks[i].completed})
  IN IF \E i \in dated : ~Strptime(CharsOf(tasks[i].due_date))
     THEN NoStatistics
     ELSE [total |-> total,
           completed |-> completed,
           overdue |-> Cardinality({i \in dated :
                         /\ DayOf(CharsOf(tasks[i].due_date)) <= DayOf(CharsOf(today))
                         /\ ~tasks[i].completed}),
           status_counts |->
             [st \in TaskStatus |-> Cardinality({i \in rows : tasks[i].status = st})],
           completion_rate |-> IF total > 0 THEN [num |-> completed * 100, den |-> total]
                               ELSE [num |-> 0, den |-> 1]]

GetTaskStatistics(project) ==
  /\ last' = [op |-> "get_task_statistics", id |-> 0, name |-> project, ret |-> TRUE,
              raised |-> FALSE, data |-> TaskStatistics(project)]
  /\ UNCHANGED <<tasks, projects, history>>
  /\ Elsewhere

\* ------------------------------------------------------------- SearchEntry
\* The delay of self.after(300, self._perform_search), in milliseconds.
SEARCH_DELAY == 300

\* The clock moves in thirds of the delay, MaxTicks times at most; MaxKeys
\* key releases are handled at most.
MaxTicks == 6
MaxKeys == 3
Quantum == SEARCH_DELAY \div 3

\* The widget does not touch the store.
StoreQuiet ==
  UNCHANGED <<tasks, projects, history, last, upd, dbFile, backupFile, boot,
              checked, today, backupRows, window>>

\* ModernEntry.get_value: the text without surrounding whitespace, '' when
\* that is the placeholder.
get_value(text) == IF Strip(text) = Placeholder THEN <<>> ELSE Strip(text)

\* Mutant of AfterCancel: nothing is cancelled.
AfterCancelNothing(timers, id) == timers

\* after_cancel(id): the timer of that id, if it has not fired, is removed.
AfterCancel(timers, id) == {t \in timers : t.id # id}

\* A key is released in the entry, which then holds text: the handler
\* _on_search_key_release cancels the timer whose id it kept, if it kept
\* one, and schedules _perform_search, keeping the new timer's id.
SearchKeyRelease(text) ==
  LET id == search.keys + 1
      kept == IF search.search_after_id # 0
              THEN AfterCancel(search.timers, search.search_after_id)
              ELSE search.timers
  IN /\ search.keys < MaxKeys
     /\ search.now + SEARCH_DELAY <= MaxTicks * Quantum
     /\ search' = [search EXCEPT
                     !.text = text,
                     !.timers = kept \cup {[id |-> id, due |-> search.now + SEARCH_DELAY]},
                     !.search_after_id = id,
                     !.keys = id,
                     !.last_key = search.now,
                     !.burst = IF /\ search.last_key >= 0
                                  /\ search.now - search.last_key < SEARCH_DELAY
                               THEN search.burst + 1 ELSE 1,
                     !.since = 0]
     /\ StoreQuiet

\* ModernEntry._on_focus_in: the placeholder is removed.
SearchFocusIn ==
  /\ search.text = Placeholder
  /\ search' = [search EXCEPT !.text = <<>>]
  /\ StoreQuiet

\* ModernEntry._on_focus_out: the placeholder is inserted at position 0 of a
\* blank entry.
SearchFocusOut ==
  /\ Strip(search.text) = <<>>
  /\ search' = [search EXCEPT !.text = Placeholder \o search.text]
  /\ StoreQuiet

\* A timer that is due fires: _perform_search hands on_search the value of
\* the entry.  search_after_id keeps the id of the timer.
PerformSearch ==
  \E t \in search.timers :
    /\ t.due <= search.now
    /\ search' = [search EXCEPT
                    !.timers = search.timers \ {t},
                    !.calls = Append(search.calls, get_value(search.text)),
                    !.since = search.since + 1]
    /\ StoreQuiet

\* Time passes; the event loop may run a due timer late.
SearchTick ==
  /\ search.now < MaxTicks * Quantum
  /\ search' = [search EXCEPT !.now = search.now + Quantum]
  /\ StoreQuiet

\* -------------------------------------------------------------- MainWindow
\* Most _load_tasks calls the model lets the window make.
MaxLoads == 2

\* What the steps of the window and of its workers leave alone.
WindowOnly ==
  UNCHANGED <<tasks, projects, history, last, upd, dbFile, backupFile, boot,
              checked, today, search, backupRows>>

\* _load_tasks, on the event thread: _show_loading(True) sets is_loading, and
\* a worker thread is started, which has yet to run.
Loading(w) ==
  [w EXCEPT !.is_loading = TRUE,
            !.loads = w.loads + 1,
            !.workers = (w.loads + 1 :> [pc |-> "started", result |-> None]) @@ w.workers]

\* _refresh_data, and the first load of the window.
LoadTasks ==
  /\ window.loads < MaxLoads
  /\ window' = Loading(window)
  /\ WindowOnly

\* _on_project_change with another project chosen in the dropdown:
\* current_project is set and _load_tasks called.
OnProjectChange(new_project) ==
  /\ window.loads < MaxLoads
  /\ new_project # window.current_project
  /\ window' = Loading([window EXCEPT !.current_project = new_project])
  /\ WindowOnly

\* load_tasks_async on the worker thread, first statement:
\* db_manager.get_tasks(project=self.current_project), with the project
\* that is current when the statement runs.
WorkerGetTasks(k) ==
  /\ k \in DOMAIN window.workers
  /\ window.workers[k].pc = "started"
  /\ window' = [window EXCEPT !.workers[k] =
                  [pc |-> "fetched",
                   result |-> [project |-> window.current_project,
                               rows |-> {tasks[i] : i \in GetTasks(window.current_project)}]]]
  /\ WindowOnly

\* load_tasks_async, second statement: root.after_idle queues the callback
\* for the event thread, and the worker ends.
WorkerAfterIdle(k) ==
  /\ k \in DOMAIN window.workers
  /\ window.workers[k].pc = "fetched"
  /\ window' = [window EXCEPT
                  !.idle = Append(window.idle, window.workers[k].result),
                  !.workers = [j \in DOMAIN window.workers \ {k} |-> window.workers[j]]]
  /\ WindowOnly

\* The event thread runs the oldest idle callback, _on_tasks_loaded(tasks):
\* self.tasks and the table get the result, _show_loading(False) clears
\* is_loading.
OnTasksLoaded ==
  /\ window.idle # <<>>
  /\ window' = [window EXCEPT !.shown = Head(window.idle),
                              !.is_loading = FALSE,
                              !.idle = Tail(window.idle)]
  /\ WindowOnly

\* ------------------------------------------------------------------- inputs
Kw(field, value) ==[f |-> field, v |-> value]

\* Field mappings handed to add_task: the title alone, optional fields
\* supplied, and one without the required title.  None names the id, which
\* the store assigns.
AddInputs ==
  { [title |-> "a"],
    [title |-> "b", status |-> "Done", priority |-> "High"],
    [status |-> "Stuck"] }

\* Keyword mappings handed to update_task, in the order of their keys: one
\* field, two fields, a second field the Task model rejects, a key that is no
\* attribute of a task.
UpdateInputs ==
  { <<Kw("title", "b")>>,
    <<Kw("status", "Done"), Kw("completed", TRUE)>>,
    <<Kw("priority", "Low"), Kw("title", "a")>>,
    <<Kw("title", "a"), Kw("status", "Bogus")>>,
    <<Kw("colour", "red")>> }

CallIds == 1..MaxId

\* Field mappings handed to add_task while projects are managed.
ProjectTaskInputs ==
  { [title |-> "a"],
    [title |-> "a", project |-> "X"] }

ProjectNames == {"X", "learning"}

ProjectInputs == {[name |-> n] : n \in ProjectNames}

\* A text of n characters c.
Repeat(c, n) == [i \in 1..n |-> c]

\* What a caller may put under a key, "absent" standing for leaving the key
\* out.  Titles: empty, blank, short, 100 characters between spaces, 101
\* characters, None, a number.
Absent == [t |-> "absent", s |-> <<>>, n |-> 0]

TitleInputs ==
  { Absent, StrValue(<<>>), StrValue(<<" ", " ">>), StrValue(<<"a">>),
    StrValue(<<" ">> \o Repeat("x", 100) \o <<" ">>), StrValue(Repeat("x", 101)),
    NoneValue, NumValue(50) }

\* Due dates: "", "2024-12-31", " 2024-1-5", "2024-02-30", "2023-02-29",
\* "31/12/2024", None.
DueDateInputs ==
  { Absent, StrValue(<<>>),
    StrValue(<<"2", "0", "2", "4", "-", "1", "2", "-", "3", "1">>),
    StrValue(<<" ", "2", "0", "2", "4", "-", "1", "-", "5">>),
    StrValue(<<"2", "0", "2", "4", "-", "0", "2", "-", "3", "0">>),
    StrValue(<<"2", "0", "2", "3", "-", "0", "2", "-", "2", "9">>),
    StrValue(<<"3", "1", "/", "1", "2", "/", "2", "0", "2", "4">>),
    NoneValue }

OwnerInputs ==
  { Absent, StrValue(Repeat("x", 50)), StrValue(Repeat("x", 51)), NoneValue }

\* Estimated hours: None, 0, 1000, -1, 1001, 1000.5, NaN, "abc", "", " 5 ",
\* "-0.5", "nan", a list.
HoursInputs ==
  { Absent, NoneValue, NumValue(0), NumValue(10000), NumValue(-10), NumValue(10010),
    NumValue(10005), NanValue, StrValue(<<"a", "b", "c">>), StrValue(<<>>),
    StrValue(<<" ", "5", " ">>), StrValue(<<"-", "0", ".", "5">>),
    StrValue(<<"n", "a", "n">>), ListValue }

NotesInputs == { Absent, StrValue(Repeat("x", 1000)), StrValue(Repeat("x", 1001)) }

TagsInputs == { Absent, StrValue(Repeat("x", 201)) }

\* The mapping holding the keys that are not left out.
Mapping(values) == [k \in {k \in DOMAIN values : values[k].t # "absent"} |-> values[k]]

FormInputs ==
  { Mapping([title |-> a, due_date |-> b, owner |-> c, estimated_hours |-> d,
             notes |-> e, tags |-> f]) :
      a \in TitleInputs, b \in DueDateInputs, c \in OwnerInputs,
      d \in HoursInputs, e \in NotesInputs, f \in TagsInputs }

\* ----------------------------------------------------------- specifications
\* Tasks and their change history.
Next ==
  \/ \E d \in AddInputs, x \in AddFaults : AddTask(d, x)
  \/ \E i \in CallIds, k \in UpdateInputs, x \in WriteFaults : UpdateTask(i, k, x)
  \/ \E i \in CallIds, x \in WriteFaults : DeleteTask(i, x)

Spec == Init /\ [][Next]_vars

\* Projects and the tasks filed under them.
NextProjects ==
  \/ \E d \in ProjectTaskInputs : AddTask(d, "none")
  \/ \E d \in ProjectInputs, x \in AddFaults : AddProject(d, x)
  \/ \E n \in ProjectNames, x \in WriteFaults : DeleteProject(n, x)
  \/ \E n \in ProjectNames, x \in WriteFaults : DeleteProjectPermanently(n, x)

SpecProjects == Init /\ [][NextProjects]_vars

\* update_task called from two threads at once.
UpdateInputsConc ==
  { <<Kw("title", "b")>>,
    <<Kw("title", "c"), Kw("priority", "High")>>,
    <<Kw("status", "Done")>> }

NextConc ==
  \/ AddTask([title |-> "a"], "none")
  \/ \E t \in Threads, i \in CallIds, k \in UpdateInputsConc : UpdateRead(t, i, k)
  \/ \E t \in Threads : UpdateCommit(t)

SpecConc == Init /\ [][NextConc]_vars

\* _init_database called from two threads at once, on any database file.
InitBoot ==
  /\ tasks = <<>>
  /\ projects = <<>>
  /\ history = <<>>
  /\ last = NoCall
  /\ upd = [t \in Threads |-> Outside]
  /\ dbFile \in {"absent", "current", "outdated"}
  /\ backupFile \in {"absent", "outdated"}
  /\ boot = [t \in Threads |-> NotBooting]
  /\ checked = NoCheck
  /\ today = Days[1]
  /\ search = SearchNew
  /\ backupRows = <<>>
  /\ window = WindowNew

NextBoot ==
  \E t \in Threads :
    \/ InitEnter(t)
    \/ InitProbe(t)
    \/ InitBackupCheck(t)
    \/ InitCopy(t)
    \/ InitDrop(t)
    \/ InitCreate(t)

SpecBoot == InitBoot /\ [][NextBoot]_vars

\* _init_database called by one caller at a time (DatabaseManager() at import,
\* setUp of the tests) on any database file, beside an earlier backup or
\* none; tasks are added and deleted while the schema is in place.
InitStartup ==
  /\ tasks = <<>>
  /\ projects = <<>>
  /\ history = <<>>
  /\ last = NoCall
  /\ upd = [t \in Threads |-> Outside]
  /\ dbFile \in {"absent", "current", "outdated"}
  /\ backupFile \in {"absent", "older"}
  /\ boot = [t \in Threads |-> NotBooting]
  /\ checked = NoCheck
  /\ today = Days[1]
  /\ search = SearchNew
  /\ backupRows = <<>>
  /\ window = WindowNew

NextStartup ==
  \/ \E x \in InitFaults : InitDatabase(x)
  \/ dbFile = "current" /\ AddTask([title |-> "a"], "none")
  \/ dbFile = "current" /\ \E i \in CallIds : DeleteTask(i, "none")

SpecStartup == InitStartup /\ [][NextStartup]_vars

\* validate_task_data called on any one of the field mappings.
InitValidate ==
  /\ tasks = <<>>
  /\ projects = <<>>
  /\ history = <<>>
  /\ last = NoCall
  /\ upd = [t \in Threads |-> Outside]
  /\ dbFile = "current"
  /\ backupFile = "absent"
  /\ boot = [t \in Threads |-> NotBooting]
  /\ checked \in {[NoCheck EXCEPT !.data = data] : data \in FormInputs}
  /\ today = Days[1]
  /\ search = SearchNew
  /\ backupRows = <<>>
  /\ window = WindowNew

NextValidate == ValidateTaskData

SpecValidate == InitValidate /\ [][NextValidate]_vars

\* The queries, on tasks added on one day or the next: with their title
\* alone; with status "Done" alone and due on the second day; filed under a
\* project with an owner and a due date long past, open and completed; due
\* on a day written without its zeroes; due on no date at all.
QueryTaskInputs ==
  { [title |-> "a"],
    [title |-> "b", status |-> "Done", due_date |-> "2026-11-04"],
    [title |-> "c", project |-> "X", owner |-> "bob", due_date |-> "2000-01-01"],
    [title |-> "d", due_date |-> "2000-01-01", completed |-> TRUE],
    [title |-> "e", due_date |-> "2026-2-01"],
    [title |-> "f", due_date |-> "soon"] }

\* The arguments of get_tasks: project, status, owner, limit, offset.
PageInputs ==
  { <<None, None, None, BATCH_SIZE, 0>>,
    <<"", "Done", None, BATCH_SIZE, 0>>,
    <<"X", None, "", BATCH_SIZE, 0>>,
    <<None, None, "bob", 1, 0>>,
    <<"learning", None, None, 1, 1>> }

NextQueries ==
  \/ \E d \in QueryTaskInputs : AddTask(d, "none")
  \/ Midnight
  \/ \E a \in PageInputs : GetTasksPage(a[1], a[2], a[3], a[4], a[5])
  \/ GetOverdueTasks
  \/ \E p \in {None, "X"} : GetTaskStatistics(p)

SpecQueries == Init /\ [][NextQueries]_vars

\* Every operation that removes rows, on tasks filed under the default
\* project, under the same name in another case and under another project,
\* with and without a project row whose name matches "learning"; the other
\* project is deleted without ever having been given a row.
StoreTaskInputs ==
  { [title |-> "a"],
    [title |-> "a", project |-> "Learning"],
    [title |-> "a", project |-> "X"] }

NextStore ==
  \/ \E d \in StoreTaskInputs : AddTask(d, "none")
  \/ \E i \in CallIds : UpdateTask(i, <<Kw("title", "b")>>, "none")
  \/ \E i \in CallIds : DeleteTask(i, "none")
  \/ AddProject([name |-> "Learning"], "none")
  \/ DeleteProject("Learning", "none")
  \/ DeleteProjectPermanently("X", "none")
  \/ \E x \in WriteFaults : DeleteOrphanLearningTasks(x)

SpecStore == Init /\ [][NextStore]_vars

\* update_task called with keys of every kind: a field, a name that is no
\* attribute beside a field, a method's name beside a field, the primary
\* key, the creation date.
FrameUpdates ==
  { <<Kw("title", "b")>>,
    <<Kw("colour", "red"), Kw("priority", "High")>>,
    <<Kw("priority", "Low"), Kw("dict", "x")>>,
    <<Kw("id", MaxId)>>,
    <<Kw("created_date", "2000-01-01")>> }

NextFrame ==
  \/ AddTask([title |-> "a"], "none")
  \/ \E i \in CallIds, k \in FrameUpdates : UpdateTask(i, k, "none")

SpecFrame == Init /\ [][NextFrame]_vars

\* The search entry: what is typed leaves the entry empty, blank, holding a
\* word, holding a word after a space, or holding the placeholder's text.
SearchTexts == {<<>>, <<" ">>, <<"a">>, <<" ", "a">>, Placeholder}

NextSearch ==
  \/ \E text \in SearchTexts : SearchKeyRelease(text)
  \/ SearchFocusIn
  \/ SearchFocusOut
  \/ PerformSearch
  \/ SearchTick

\* The event loop runs a due timer, and time passes.
SpecSearch ==
  Init /\ [][NextSearch]_vars /\ WF_vars(PerformSearch) /\ WF_vars(SearchTick)

\* The main window over a store tasks are added to: loads, project changes,
\* the workers' two steps and the idle callbacks, in any interleaving.
NextWindow ==
  \/ \E d \in ProjectTaskInputs : AddTask(d, "none")
  \/ LoadTasks
  \/ \E p \in ProjectNames : OnProjectChange(p)
  \/ \E k \in 1..MaxLoads : WorkerGetTasks(k)
  \/ \E k \in 1..MaxLoads : WorkerAfterIdle(k)
  \/ OnTasksLoaded

SpecWindow == Init /\ [][NextWindow]_vars

\* =================================================================== claims
\* The rows of a TaskHistory table h that name task id.
RowsOf(h, id) == SelectSeq(h, LAMBDA r : r.task_id = id)

\* C1: every stored task has completed true iff its status is "Done", and a
\* completed_date iff completed is true, after any add_task / update_task
\* calls.  The store never derives completed or completed_date from status,
\* so add_task with status "Done" alone breaks it.
C1_CompletedIffDone ==
  \A i \in TaskIds :
    /\ tasks[i].completed <=> (tasks[i].status = "Done")
    /\ (tasks[i].completed_date # None) <=> tasks[i].completed

\* The positions of a keyword mapping whose key is a task field and whose
\* value differs from the one stored for task id.
ChangedKeys(id, kw) ==
  {k \in 1..Len(kw) : kw[k].f \in TaskAttrs /\ tasks[id][kw[k].f] # kw[k].v}

\* C2: a successful update_task appends exactly one TaskHistory row per
\* supplied field whose value differs from the stored one (old_value the
\* stored value, new_value the supplied one, as text) and no other row; with
\* no differing field it appends nothing.
C2_OneRowPerChangedField ==
  [][ (last'.op = "update_task" /\ last'.ret) =>
        LET id == last'.id
            kw == last'.data
            changed == ChangedKeys(id, kw)
            added == {n \in 1..Len(history') : n > Len(history)}
        IN /\ Len(history') = Len(history) + Cardinality(changed)
           /\ SubSeq(history', 1, Len(history)) = history
           /\ \A k \in changed :
                Cardinality({n \in added : history'[n].field_name = kw[k].f}) = 1
           /\ \A n \in added :
                \E k \in changed :
                  history'[n] =
                    [task_id |-> id, field_name |-> kw[k].f,
                     old_value |-> TextOrNull(kw[k].f, tasks[id][kw[k].f]),
                     new_value |-> TextOrNull(kw[k].f, kw[k].v)] ]_vars

\* C2 witness: a task stored with title "b" has one history row, left by an
\* earlier update that changed completed alone, and update_task(title="b")
\* has just returned true without adding a row.
C2_Witness ==
  /\ last.op = "update_task" /\ last.ret
  /\ last.data = <<Kw("title", "b")>>
  /\ last.id \in TaskIds
  /\ tasks[last.id].title = "b"
  /\ RowsOf(history, last.id) =
       << [task_id |-> last.id, field_name |-> "completed",
           old_value |-> "False", new_value |-> "True"] >>

\* C3: after delete_task(id) returns true the task is not stored, no history
\* row of that id remains, and the tasks and history rows of every other id
\* are as before.
C3_DeleteCascades ==
  [][ (last'.op = "delete_task" /\ last'.ret) =>
        LET id == last'.id
        IN /\ id \notin DOMAIN tasks'
           /\ DOMAIN tasks' = TaskIds \ {id}
           /\ RowsOf(history', id) = <<>>
           /\ \A j \in TaskIds \ {id} :
                tasks'[j] = tasks[j] /\ RowsOf(history', j) = RowsOf(history, j)
           /\ projects' = projects ]_vars

\* C3 witness: a delete has returned true while another task and its history
\* rows are still stored.
C3_Witness ==
  /\ last.op = "delete_task" /\ last.ret
  /\ \E j \in TaskIds : RowsOf(history, j) # <<>>

C5_ProjectGone ==
  (last.op = "delete_project_permanently" /\ last.ret) =>
    /\ GetTasks(last.name) = {}
    /\ \A i \in GetProjects : projects[i].name # last.name

\* C6: delete_project_permanently on a name with no project row returns false
\* and changes nothing.  The tasks of that name are deleted before the project
\* is looked up, and leaving the session scope commits the deletions.
C6_NotFoundChangesNothing ==
  [][ (last'.op = "delete_project_permanently" /\ ProjectsNamed(last'.name) = {}) =>
        /\ ~last'.ret
        /\ tasks' = tasks /\ projects' = projects /\ history' = history ]_vars

\* C7: delete_project on an existing name returns true, keeps the row with
\* is_active false, leaves the tasks alone, and the name is no longer listed
\* by get_projects; on a missing name it returns false and changes nothing.
\* With two rows of one name only the first is deactivated.
C7_SoftDelete ==
  [][ /\ (last'.op = "delete_project" /\ last'.ret) =>
           /\ DOMAIN projects' = ProjectIds
           /\ tasks' = tasks /\ history' = history
           /\ \A i \in ProjectIds : projects'[i].name = projects[i].name
           /\ \E i \in ProjectsNamed(last'.name) : ~projects'[i].is_active
           /\ \A i \in GetProjects' : projects'[i].name # last'.name
      /\ (last'.op = "delete_project" /\ ProjectsNamed(last'.name) = {}) =>
           /\ ~last'.ret
           /\ tasks' = tasks /\ projects' = projects /\ history' = history ]_vars

\* C8: a write whose session scope raised returns its failure value and
\* leaves tasks, projects and history exactly as they were.  add_task commits
\* before session.refresh, so a raise in the refresh leaves the row stored.
C8_FailedWriteChangesNothing ==
  [][ last'.raised =>
        /\ ~last'.ret
        /\ tasks' = tasks /\ projects' = projects /\ history' = history ]_vars

\* C9: when update_task calls on one task run at once, every history row a
\* successful call writes has old_value equal to the value stored for that
\* field just before that call's commit.  Each call logs the value it read
\* at session.get, which another call may have replaced since.
C9_OldValueIsStoredValue ==
  [][ (last'.op = "update_task" /\ last'.ret) =>
        \A n \in (Len(history) + 1)..Len(history') :
          history'[n].old_value =
            TextOrNull(history'[n].field_name,
                       tasks[history'[n].task_id][history'[n].field_name]) ]_vars

\* C10: at most one thread is inside _init_database at any moment.  The lock
\* made in __init__ is never acquired.
C10_InitSerialized ==
  Cardinality({t \in Threads : boot[t].pc # "idle"}) <= 1

TextsAreStr(data) == \A f \in StrippedFields \cap DOMAIN data : data[f].t = "str"

\* The messages of the lines validate_task_data returned.
MessagesOf(c) == {c.errors[i][2] : i \in 1..Len(c.errors)}

RuleOrder == <<"title", "due_date", "owner", "estimated_hours", "notes", "tags">>

RuleMessages ==
  [title |-> {"Task title is required", "Task title must be 100 characters or less"},
   due_date |-> {"Invalid due date format. Use YYYY-MM-DD (e.g., 2024-12-31)"},
   owner |-> {"Owner name must be 50 characters or less"},
   estimated_hours |-> {"Estimated hours must be a valid number",
                        "Estimated hours must be a positive number",
                        "Estimated hours must be 1000 or less"},
   notes |-> {"Notes must be 1000 characters or less"},
   tags |-> {"Tags must be 200 characters or less"}]

\* A number in the closed range 0..1000.
InRange(hours) == ~hours.raised /\ hours.kind = "finite" /\ hours.tenths \in 0..10000

\* The rules of validation: title non-empty and at most 100 characters after
\* trimming; due_date, if non-empty, a date YYYY-MM-DD; owner at most 50,
\* notes at most 1000, tags at most 200 characters after trimming;
\* estimated_hours, if present, convertible to a number in 0..1000.
RuleViolated(data, rule) ==
  CASE rule = "title" ->
         Stripped(data, "title") = <<>> \/ Len(Stripped(data, "title")) > 100
    [] rule = "due_date" ->
         Stripped(data, "due_date") # <<>> /\ ~Strptime(Stripped(data, "due_date"))
    [] rule = "owner" -> Len(Stripped(data, "owner")) > 50
    [] rule = "estimated_hours" ->
         /\ Get(data, "estimated_hours", NoneValue).t # "NoneType"
         /\ ~InRange(Float(Get(data, "estimated_hours", NoneValue)))
    [] rule = "notes" -> Len(Stripped(data, "notes")) > 1000
    [] rule = "tags" -> Len(Stripped(data, "tags")) > 200

\* C12: validate_task_data fails exactly when some rule is violated, and its
\* output then holds one message per violated rule, in the order title,
\* due_date, owner, estimated_hours, notes, tags, and none for a satisfied
\* rule.  An estimated_hours that converts to NaN is outside 0..1000 and
\* draws no message (see C15).
C12_EveryViolationReported ==
  (checked.called /\ TextsAreStr(checked.data)) =>
    LET violated == SelectSeq(RuleOrder, LAMBDA r : RuleViolated(checked.data, r))
    IN /\ ~checked.raised
       /\ checked.is_valid <=> violated = <<>>
       /\ Len(checked.errors) = Len(violated)
       /\ \A i \in 1..Len(violated) :
            /\ i <= Len(checked.errors)
            /\ checked.errors[i][2] \in RuleMessages[violated[i]]

SyntacticDate(s) ==
  /\ Len(s) = 10
  /\ \A i \in 1..10 : IF i \in {5, 8} THEN s[i] = "-" ELSE s[i] \in DOMAIN DigitValue

C15_HoursAcceptedIffInRange ==
  ( /\ checked.called /\ TextsAreStr(checked.data)
    /\ Get(checked.data, "estimated_hours", NoneValue).t # "NoneType" ) =>
    LET hours == Float(checked.data.estimated_hours)
        said == MessagesOf(checked) \cap RuleMessages.estimated_hours
    IN /\ InRange(hours) <=> said = {}
       /\ hours.raised => said = {"Estimated hours must be a valid number"}
       /\ Less(hours, 0) => said = {"Estimated hours must be a positive number"}
       /\ Greater(hours, 1000) => said = {"Estimated hours must be 1000 or less"}

\* C16: validate_task_data returns a result for every field mapping and
\* never raises.  A title, due_date, owner, notes or tags that is present and
\* no string (None, a number) has no strip method: AttributeError leaves
\* the function.
C16_NeverRaises ==
  checked.called => ~checked.raised

\* C19: update_task and delete_task called with an id that names no stored
\* task return False and leave every task and every TaskHistory row as it
\* was; get_task_by_id of such an id returns None.
C19_UnknownIdChangesNothing ==
  [][ (last'.op \in {"update_task", "delete_task"} /\ last'.id \notin TaskIds) =>
        /\ ~last'.ret
        /\ tasks' = tasks /\ history' = history /\ projects' = projects
        /\ GetTaskById(last'.id) = None ]_vars

\* C19 witness: delete_task of an id that names no task has returned False
\* while another task and a history row are stored.
C19_Witness ==
  /\ last.op = "delete_task" /\ ~last.ret /\ ~last.raised
  /\ last.id \notin TaskIds
  /\ TaskIds # {}
  /\ history # <<>>

\* The sum of the values of a function of numbers.
RECURSIVE SumOf(_, _)
SumOf(f, keys) ==
  IF keys = {} THEN 0
  ELSE LET k == CHOOSE k \in keys : TRUE IN f[k] + SumOf(f, keys \ {k})

\* C17: get_task_statistics(project) reports as total the number of tasks of
\* the project (of all tasks for no project), as completed the number of them
\* that are completed, which is the number whose status is "Done", status
\* counts that sum to total, and completion_rate = completed / total * 100 (0
\* for no task), with 0 <= completed <= total.  A task added with status
\* "Done" alone is stored with completed false (see C1) and is not counted;
\* and one stored due_date that strptime cannot parse makes the call return
\* its zeroes.
C17_StatisticsCount ==
  last.op = "get_task_statistics" =>
    LET st == last.data
        rows == IF last.name \in {None, ""} THEN TaskIds ELSE TasksOfProject(last.name)
    IN /\ st.total = Cardinality(rows)
       /\ st.completed = Cardinality({i \in rows : tasks[i].completed})
       /\ st.completed = Cardinality({i \in rows : tasks[i].status = "Done"})
       /\ SumOf(st.status_counts, DOMAIN st.status_counts) = st.total
       /\ st.completion_rate.num * st.total = st.completed * 100 * st.completion_rate.den
       /\ st.total = 0 => st.completion_rate.num = 0
       /\ 0 <= st.completed /\ st.completed <= st.total

\* C18: get_overdue_tasks returns exactly the stored tasks whose due_date is
\* a day strictly before the day of the call and whose completed is false.
\* The store compares the two dates as texts, so a due_date written without
\* its zeroes ("2026-2-01", which validation lets through) is not returned
\* in November 2026.
C18_OverdueExactly ==
  last.op = "get_overdue_tasks" =>
    last.data.rows =
      {tasks[i] : i \in {j \in TaskIds :
         /\ tasks[j].due_date # None
         /\ Strptime(CharsOf(tasks[j].due_date))
         /\ DayOf(CharsOf(tasks[j].due_date)) < DayOf(CharsOf(last.data.today))
         /\ ~tasks[j].completed}}

\* C20: get_tasks returns the tasks matching every filter that is neither
\* None nor '', latest created_date first, without the first offset of them
\* and at most limit of them: the page of some ordering of the matching
\* tasks by descending created_date.  So a task of project P is returned by
\* get_tasks(project=P) only if it is among the first limit matches.
C20_FilteredPage ==
  last.op = "get_tasks" =>
    LET a == last.data
        matches == {i \in TaskIds :
                     /\ a.project \notin {None, ""} => tasks[i].project = a.project
                     /\ a.status \notin {None, ""} => tasks[i].status = a.status
                     /\ a.owner \notin {None, ""} => tasks[i].owner = a.owner}
        n == Cardinality(matches)
        kept == IF n - a.offset < a.limit THEN n - a.offset ELSE a.limit
    IN /\ Len(a.rows) = IF kept < 0 THEN 0 ELSE kept
       /\ \E o \in [1..n -> matches] :
            /\ \A j, k \in 1..n : j # k => o[j] # o[k]
            /\ \A k \in 1..(n - 1) :
                 DayOf(CharsOf(tasks[o[k]].created_date))
                   >= DayOf(CharsOf(tasks[o[k + 1]].created_date))
            /\ \A k \in 1..Len(a.rows) : a.rows[k] = tasks[o[a.offset + k]]

\* C20 witness: of two tasks of a project created on different days,
\* get_tasks of the project with limit 1 and offset 1 returned the one
\* created first.
C20_Witness ==
  /\ last.op = "get_tasks"
  /\ last.data.limit = 1 /\ last.data.offset = 1
  /\ Len(last.data.rows) = 1
  /\ last.data.rows[1].created_date = Days[1]
  /\ \E i \in TaskIds :
       tasks[i].created_date = Days[2] /\ tasks[i].project = last.data.project

\* C21: a delete_orphan_learning_tasks call removes exactly the tasks whose
\* project is "learning" in any case when no project row, active or not, has
\* such a name, and no task otherwise; it returns True when it removed a
\* task and False when it removed none, because a learning project exists,
\* because there was no learning task, or because the call failed.
C21_OrphanCleanup ==
  [][last'.op = "delete_orphan_learning_tasks" =>
       LET orphan == LearningProjects = {}
           cleaned == orphan /\ ~last'.raised
       IN /\ tasks' = IF cleaned THEN [i \in TaskIds \ LearningTasks |-> tasks[i]]
                      ELSE tasks
          /\ last'.ret = (cleaned /\ LearningTasks # {})]_vars

\* The keys of a keyword mapping.
KeysOf(kw) == {kw[k].f : k \in DOMAIN kw}

\* C22: an update_task call leaves every other task as it was, leaves the
\* fields of its task that the mapping does not name as they were, adds
\* history rows for named fields only, and returns True on a stored task
\* whenever the values it gives for Task fields are acceptable, whatever
\* other keys the mapping holds.
C22_UpdateFrame ==
  [][last'.op = "update_task" =>
       LET id == last'.id
           kw == last'.data
           named == KeysOf(kw)
       IN /\ \A j \in TaskIds \ {id} : j \in DOMAIN tasks' /\ tasks'[j] = tasks[j]
          /\ id \in TaskIds =>
               \E n \in DOMAIN tasks' :
                 /\ DOMAIN tasks' = (TaskIds \ {id}) \cup {n}
                 /\ n = id \/ "id" \in named
                 /\ \A f \in TaskAttrs \ named : tasks'[n][f] = tasks[id][f]
          /\ Len(history') >= Len(history)
          /\ SubSeq(history', 1, Len(history)) = history
          /\ \A k \in (Len(history) + 1)..Len(history') :
               history'[k].field_name \in named \cap TaskAttrs
          /\ ( /\ id \in TaskIds
               /\ "id" \notin named
               /\ \A k \in DOMAIN kw :
                    kw[k].f \in TaskAttrs => AssignAccepts(kw[k].f, kw[k].v) )
             => last'.ret]_vars

\* C23: an update_task call leaves every stored task under the id it had,
\* with the created_date it had.
C23_IdentityKept ==
  [][last'.op = "update_task" =>
       \A i \in TaskIds :
         /\ i \in DOMAIN tasks'
         /\ tasks'[i].id = i
         /\ tasks'[i].created_date = tasks[i].created_date]_vars

\* The debouncing of SearchEntry, but for the term handed to on_search: at
\* most one search is pending; a key release leaves exactly the search it
\* schedules pending, due one delay later; no search is made between two
\* key releases of a burst; after a key release the search is either still
\* pending or was made exactly once, and it is made in the end.
SearchDebounced ==
  /\ [](Cardinality(search.timers) <= 1)
  /\ [][search'.keys # search.keys =>
          search'.timers = {[id |-> search'.search_after_id,
                             due |-> search.now + SEARCH_DELAY]}]_vars
  /\ [][search'.keys # search.keys /\ search'.burst > 1 => search.since = 0]_vars
  /\ [](search.last_key >= 0 =>
          \/ search.since = 0 /\ search.timers # {}
          \/ search.since = 1 /\ search.timers = {})
  /\ [](search.keys > 0 => <>(search.since = 1))

C25_NoOrphanHistory ==
  \A k \in DOMAIN history : history[k].task_id \in TaskIds

\* C26: the id add_task returns names no task stored before the call, and
\* get_task_history of that id right after the call is empty.
C26_NewTaskHasNoHistory ==
  [][last'.op = "add_task" /\ last'.ret =>
       /\ last'.id \notin TaskIds
       /\ RowsOf(history', last'.id) = <<>>]_vars

\* A due date is well-formed: none, or a calendar day written YYYY-MM-DD
\* with its zeroes.
WellFormedDue(d) ==
  d = None \/ (Len(CharsOf(d)) = 10 /\ Strptime(CharsOf(d)))

\* C27: whenever every stored due date is well-formed, the overdue count of
\* get_task_statistics() equals the number of tasks get_overdue_tasks()
\* returns.
C27_OverdueCountsAgree ==
  (\A i \in TaskIds : WellFormedDue(tasks[i].due_date)) =>
    TaskStatistics(None).overdue = Cardinality(OverdueTasks)

\* C28: a worker's steps (those that move or end a worker without a new
\* load) leave what the window shows, and is_loading, as they are; and once
\* loads were made, every worker has ended and every callback has run, the
\* window shows the result of a load for the project that is current.
C28_LoadsRaceFree ==
  /\ [][(window'.workers # window.workers /\ window'.loads = window.loads)
          => (window'.shown = window.shown /\ window'.is_loading = window.is_loading)]_vars
  /\ []((window.loads > 0 /\ window.workers = <<>> /\ window.idle = <<>>)
          => window.shown.project = window.current_project)

\* C29: an _init_database call on a database file that holds the current
\* schema leaves the three tables, the database file and the backup path as
\* they are.
C29_InitIdempotent ==
  [][last'.op = "_init_database" /\ dbFile = "current" =>
       /\ tasks' = tasks /\ projects' = projects /\ history' = history
       /\ dbFile' = dbFile
       /\ backupFile' = backupFile /\ backupRows' = backupRows]_vars

\* C30: whenever an _init_database call has dropped the tables, the backup
\* file holds what the database file held when the call began.
C30_BackupBeforeDrop ==
  [][(/\ last'.op = "_init_database"
      /\ last'.name = "migrated"
      /\ last'.ret \/ last'.data = "create") =>
       /\ backupFile' = dbFile
       /\ backupRows' = tasks]_vars

====
